---- MODULE Spec2Model ----
(***************************************************************************)
(* Model of the OpenThread platform glue of RIOT:                          *)
(*   pkg/openthread/contrib/platform_radio.c  (radio commands, handlers)   *)
(*   pkg/openthread/contrib/platform_alarm.c  (millisecond alarm, loop)    *)
(*                                                                         *)
(* The C functions are operators from a context record to a context       *)
(* record, composed the way the C functions call each other; the actions   *)
(* apply one C function to the current state.  The netdev2 driver behind   *)
(* _dev is not part of these two files: it is modelled as a device record  *)
(* (dev_* operators) following the radio life cycle of the specification.  *)
(***************************************************************************)
EXTENDS Integers, Sequences, FiniteSets, TLC

(* ----------------------------- bounds ---------------------------------- *)

\* capacity of the receive buffer rb handed to openthread_radio_init
RxBufLen == 3

\* largest channel number the consumer asks for (channels 11..MaxChannel)
MaxChannel == 12

\* largest transmit power the consumer puts in a frame (0..MaxPower)
MaxPower == 1

\* calls of otPlatAlarmMilliStartAt in one run
MaxRequests == 6

\* longest delay, in milliseconds, the consumer asks for (0..MaxDelay)
MaxDelay == 1

\* clock ticks, of one millisecond each, in one run
MaxTicks == 2

\* tasklets the consumer keeps pending at most
MaxTasklets == 1
MaxSteps == 5
MaxBacklog == 0

(* ------------------------ program constants ---------------------------- *)

UINT16_MAX == 65535

OPENTHREAD_QUEUE_LEN == 5

US_PER_MS == 1000

\* A 32-bit count of microseconds is kept as [ms, us], ms whole milliseconds
\* and us < US_PER_MS microseconds.  2^32 microseconds are 4294967 ms and
\* 296 us: there the count wraps to 0.
WrapMs == 65536 * 65 + 35127
WrapUs == 296

Usec(ms, us) == [ms |-> ms, us |-> us]

\* x reduced modulo 2^32 microseconds
RECURSIVE WrapU32(_)
WrapU32(x) ==
    IF x.ms > WrapMs \/ (x.ms = WrapMs /\ x.us >= WrapUs)
    THEN WrapU32(IF x.us >= WrapUs
                 THEN Usec(x.ms - WrapMs, x.us - WrapUs)
                 ELSE Usec(x.ms - WrapMs - 1, x.us + US_PER_MS - WrapUs))
    ELSE x

\* x + y microseconds, in 32 bits
AddU32(x, y) ==
    WrapU32(Usec(x.ms + y.ms + (x.us + y.us) \div US_PER_MS, (x.us + y.us) % US_PER_MS))

\* uint32_t n * US_PER_MS, in 32 bits
MsToUsecU32(n) == WrapU32(Usec(n, 0))

\* the smallest delay whose microseconds do not fit 32 bits
WrapDelay == WrapMs + 1

Channels == 11 .. MaxChannel
Powers == 0 .. MaxPower

IEEE802154_LONG_ADDRESS_LEN == 8

\* the 16-bit PAN id and short address the consumer sets
PanIds == {4660}
ShortAddresses == {65534}

\* extended addresses the consumer sets: the first and the last byte vary
AddressBytes == {0, 255}
ExtAddresses ==
    { [i \in 1 .. IEEE802154_LONG_ADDRESS_LEN |->
         IF i = 1 THEN a ELSE IF i = IEEE802154_LONG_ADDRESS_LEN THEN b ELSE 0] :
        a \in AddressBytes, b \in AddressBytes }

\* the device as the driver sets it up
DefaultConfig ==
    [nid |-> 0, addr |-> 0,
     long_addr |-> [i \in 1 .. IEEE802154_LONG_ADDRESS_LEN |-> i],
     promiscuous |-> "NETOPT_DISABLE"]

\* netopt_state_t values the glue reads or writes
NetoptStates == {"OFF", "SLEEP", "IDLE", "RX", "TX"}

\* netdev2_event_t values handed to sent_pkt
TxDoneEvents == {"TX_COMPLETE", "TX_COMPLETE_DATA_PENDING", "TX_NOACK", "TX_MEDIUM_BUSY"}
TxEvents == TxDoneEvents \cup {"TX_STARTED"}

\* frame lengths the driver may report to recv_pkt (an int; negative = errno)
RecvLens == {-1, 0, RxBufLen, RxBufLen + 1, UINT16_MAX, UINT16_MAX + 1}

\* frames the consumer writes into the transmit buffer before Transmit
\* (the payload differs from frame to frame)
TxFrames ==
    { [mLength |-> c - 10, mChannel |-> c, mPower |-> w, mPsdu |-> [i \in 1 .. c - 10 |-> w]] :
        c \in Channels, w \in Powers }

VARIABLES
    NDEBUG,          \* build flag: TRUE when assert() is compiled out
    dev,             \* the netdev2 device: NETOPT_STATE, NETOPT_CHANNEL, NETOPT_TX_POWER,
                     \* NETOPT_NID, NETOPT_ADDRESS, NETOPT_ADDRESS_LONG,
                     \* NETOPT_PROMISCUOUSMODE
    sTransmitFrame,  \* static RadioPacket sTransmitFrame
    sReceiveFrame,   \* static RadioPacket sReceiveFrame (mPsdu = rb, RxBufLen bytes)
    panicked,        \* assert(false) was reached: the program has stopped
    prev,            \* the state right before the last operation
    last,            \* the last operation: arguments, return value, upcalls, driver calls
    trace,           \* the first operations of the run, while trace.left > 0
    now_usec,        \* xtimer_now_usec(): the microsecond clock
    ot_timer,        \* static xtimer_t ot_timer, with the message it will send
    queue,           \* _queue: the message queue of the timer thread
    pc,              \* where _openthread_timer_thread stands
    msg,             \* its local msg_t msg
    tasklets,        \* tasklets the consumer has pending
    nreq,            \* calls of otPlatAlarmMilliStartAt so far
    ticks,           \* clock ticks so far
    alarm_prev,      \* the alarm state right before the last alarm operation
    alarm_last       \* the last alarm operation

radioVars == <<NDEBUG, dev, sTransmitFrame, sReceiveFrame, panicked, prev, last, trace>>
alarmVars == <<now_usec, ot_timer, queue, pc, msg, tasklets, nreq, ticks, alarm_prev,
               alarm_last>>
vars == <<radioVars, alarmVars>>

(* ----------------------- radio property adapter ------------------------ *)

get_channel(d) == d.channel
set_channel(d, channel) == [d EXCEPT !.channel = channel]
get_power(d) == d.power
set_power(d, power) == [d EXCEPT !.power = power]
set_panid(d, panid) == [d EXCEPT !.nid = panid]
\* the device copies out, and takes in, the eight bytes as they are stored
get_long_addr(d) == d.long_addr
set_long_addr(d, ext_addr) == [d EXCEPT !.long_addr = ext_addr]
get_addr(d) == d.addr
set_addr(d, addr) == [d EXCEPT !.addr = addr]
is_promiscuous(d) == d.promiscuous = "NETOPT_ENABLE"
set_promiscuous(d, enable) == [d EXCEPT !.promiscuous = enable]
get_state(d) == d.state
set_state(d, state) == [d EXCEPT !.state = state]

is_sleep(d) == get_state(d) = "SLEEP"
is_receive(d) == get_state(d) = "IDLE" \/ get_state(d) = "RX"
is_transmit(d) == get_state(d) = "TX"

is_busy(d) == get_state(d) = "TX" \/ get_state(d) = "RX"

\* is_rx / is_tx are called by otPlatRadioTransmit and defined in neither file
is_rx(d) == get_state(d) = "RX"
is_tx(d) == get_state(d) = "TX"

(* ------------------------------ device --------------------------------- *)

\* _dev->driver->send: the device starts transmitting the frame
dev_send(d) == [d EXCEPT !.state = "TX"]

\* the device finished a transmission and fell back to listening
dev_tx_end(d) == [d EXCEPT !.state = "IDLE"]

\* the device received a whole frame and fell back to listening
dev_rx_end(d) == [d EXCEPT !.state = "IDLE"]

(* ------------------------------ context -------------------------------- *)

\* c.dev, c.tx, c.rx: the state a C function works on;  c.ret: its return
\* value;  c.up: the upcalls it made;  c.sends: calls of driver->send;
\* c.wrote / c.over: bytes stored through sReceiveFrame.mPsdu, and how many
\* of them beyond the RxBufLen bytes of the buffer;  c.panic: assert failed
\* c.out: what it stored through an output pointer.
Ctx == [dev |-> dev, tx |-> sTransmitFrame, rx |-> sReceiveFrame, ret |-> "void",
        up |-> <<>>, sends |-> 0, wrote |-> 0, over |-> 0, panic |-> FALSE,
        out |-> <<>>]

(* -------------------------- configuration ------------------------------ *)

\* ((x & 0xff) << 8) | ((x >> 8) & 0xff)
SwapBytes16(x) == ((x % 256) * 256) + ((x \div 256) % 256)

otPlatRadioGetIeeeEui64(c) == [c EXCEPT !.out = get_long_addr(c.dev)]

otPlatRadioSetPanId(c, aPanId) == [c EXCEPT !.dev = set_panid(@, SwapBytes16(aPanId))]

otPlatRadioSetExtendedAddress(c, aExtendedAddress) ==
    LET reversed_addr ==
          [i \in 1 .. IEEE802154_LONG_ADDRESS_LEN |->
             aExtendedAddress[IEEE802154_LONG_ADDRESS_LEN + 1 - i]]
    IN [c EXCEPT !.dev = set_long_addr(@, reversed_addr)]

otPlatRadioSetShortAddress(c, aShortAddress) ==
    [c EXCEPT !.dev = set_addr(@, SwapBytes16(aShortAddress))]

otPlatRadioSetDefaultTxPower(c, aPower) == [c EXCEPT !.dev = set_power(@, aPower)]

otPlatRadioGetPromiscuous(c) == [c EXCEPT !.ret = is_promiscuous(c.dev)]

otPlatRadioSetPromiscuous(c, aEnable) ==
    [c EXCEPT !.dev = set_promiscuous(@, IF aEnable THEN "NETOPT_ENABLE"
                                                    ELSE "NETOPT_DISABLE")]

otPlatRadioGetState(d) ==
    CASE get_state(d) = "OFF" -> "Disabled"
      [] get_state(d) = "SLEEP" -> "Sleep"
      [] get_state(d) \in {"IDLE", "RX"} -> "Receive"
      [] get_state(d) = "TX" -> "Transmit"

otPlatRadioIsEnabled(d) == get_state(d) # "OFF"

(* --------------------------- radio commands ---------------------------- *)

otPlatRadioEnable(c) ==
    IF is_busy(c.dev)
    THEN [c EXCEPT !.ret = "None"]
    ELSE [c EXCEPT !.dev = set_state(c.dev, "SLEEP"), !.ret = "None"]

otPlatRadioDisable_NoBusyCheck(c) ==
    [c EXCEPT !.dev = set_state(c.dev, "OFF"), !.ret = "None"]

otPlatRadioDisable(c) ==
    IF is_busy(c.dev)
    THEN [c EXCEPT !.ret = "Busy"]
    ELSE [c EXCEPT !.dev = set_state(c.dev, "OFF"), !.ret = "None"]

otPlatRadioSleep_NoDisable(c) ==
    IF is_busy(c.dev)
    THEN [c EXCEPT !.ret = "Busy"]
    ELSE [c EXCEPT !.dev = set_state(c.dev, "SLEEP"), !.ret = "None"]

otPlatRadioSleep(c) ==
    IF is_busy(c.dev)
    THEN [c EXCEPT !.ret = "Busy"]
    ELSE otPlatRadioDisable([c EXCEPT !.dev = set_state(c.dev, "SLEEP")])

otPlatRadioReceive_NoFrameChannel(c, aChannel) ==
    IF is_busy(c.dev)
    THEN [c EXCEPT !.ret = "Busy"]
    ELSE [c EXCEPT !.dev = set_state(set_channel(c.dev, aChannel), "IDLE"),
                   !.ret = "None"]

otPlatRadioReceive(c, aChannel) ==
    IF is_busy(c.dev)
    THEN [c EXCEPT !.ret = "Busy"]
    ELSE [c EXCEPT !.dev = set_state(set_channel(c.dev, aChannel), "IDLE"),
                   !.rx = [c.rx EXCEPT !.mChannel = aChannel],
                   !.ret = "None"]

otPlatRadioTransmit_NoTxCheck(c, ndebug) ==
    IF is_rx(c.dev)
    THEN IF ndebug THEN [c EXCEPT !.ret = "Busy"] ELSE [c EXCEPT !.panic = TRUE]
    ELSE [c EXCEPT !.dev = dev_send(set_power(set_channel(c.dev, c.tx.mChannel),
                                              c.tx.mPower)),
                   !.sends = c.sends + 1,
                   !.ret = "None"]

\* assert(false) stops the program unless NDEBUG compiles it out; then the
\* function goes on to return kThreadError_Busy
otPlatRadioTransmit(c, ndebug) ==
    IF is_rx(c.dev) \/ is_tx(c.dev)
    THEN IF ndebug THEN [c EXCEPT !.ret = "Busy"] ELSE [c EXCEPT !.panic = TRUE]
    ELSE [c EXCEPT !.dev = dev_send(set_power(set_channel(c.dev, c.tx.mChannel),
                                              c.tx.mPower)),
                   !.sends = c.sends + 1,
                   !.ret = "None"]

(* --------------------------- event handlers ---------------------------- *)

TransmitDone(frame, pending, error) ==
    [fn |-> "otPlatRadioTransmitDone", frame |-> frame, pending |-> pending, error |-> error]

ReceiveDone(frame, error) ==
    [fn |-> "otPlatRadioReceiveDone", frame |-> frame, pending |-> FALSE, error |-> error]

sent_pkt_FallThrough(c, event) ==
    CASE event = "TX_COMPLETE" ->
           [c EXCEPT !.up = Append(c.up, TransmitDone("sTransmitFrame", FALSE, "None"))]
      [] event = "TX_COMPLETE_DATA_PENDING" ->
           [c EXCEPT !.up = Append(c.up, TransmitDone("sTransmitFrame", TRUE, "None"))]
      [] event = "TX_NOACK" ->
           [c EXCEPT !.up = c.up \o
                <<TransmitDone("sTransmitFrame", FALSE, "NoAck"),
                  TransmitDone("sTransmitFrame", FALSE, "ChannelAccessFailure")>>]
      [] event = "TX_MEDIUM_BUSY" ->
           [c EXCEPT !.up = Append(c.up,
                TransmitDone("sTransmitFrame", FALSE, "ChannelAccessFailure"))]
      [] OTHER -> c

sent_pkt_DataPending(c, event) ==
    CASE event \in {"TX_COMPLETE", "TX_COMPLETE_DATA_PENDING"} ->
           [c EXCEPT !.up = Append(c.up, TransmitDone("sTransmitFrame", TRUE, "None"))]
      [] event = "TX_NOACK" ->
           [c EXCEPT !.up = Append(c.up, TransmitDone("sTransmitFrame", FALSE, "NoAck"))]
      [] event = "TX_MEDIUM_BUSY" ->
           [c EXCEPT !.up = Append(c.up,
                TransmitDone("sTransmitFrame", FALSE, "ChannelAccessFailure"))]
      [] OTHER -> c

sent_pkt(c, event) ==
    CASE event = "TX_COMPLETE" ->
           [c EXCEPT !.up = Append(c.up, TransmitDone("sTransmitFrame", FALSE, "None"))]
      [] event = "TX_COMPLETE_DATA_PENDING" ->
           [c EXCEPT !.up = Append(c.up, TransmitDone("sTransmitFrame", TRUE, "None"))]
      [] event = "TX_NOACK" ->
           [c EXCEPT !.up = Append(c.up, TransmitDone("sTransmitFrame", FALSE, "NoAck"))]
      [] event = "TX_MEDIUM_BUSY" ->
           [c EXCEPT !.up = Append(c.up,
                TransmitDone("sTransmitFrame", FALSE, "ChannelAccessFailure"))]
      [] OTHER -> c

\* len > (unsigned) UINT16_MAX: the int len is converted to unsigned for the
\* comparison (32-bit int), so a negative len (an errno) compares as a huge value
GreaterUnsigned(len, bound) == len < 0 \/ len > bound

Max(a, b) == IF a > b THEN a ELSE b

\* len: what driver->recv(dev, NULL, 0, NULL) reports;  ok: whether the
\* second driver->recv, which stores len bytes at mPsdu, succeeds
recv_pkt(c, len, ok) ==
    IF GreaterUnsigned(len, UINT16_MAX)
    THEN [c EXCEPT !.up = Append(c.up, ReceiveDone("NULL", "Abort"))]
    ELSE LET res == IF ok THEN len ELSE -1
             stored == IF ok THEN len ELSE 0
         IN [c EXCEPT !.rx = [c.rx EXCEPT !.mLength = len, !.mPower = get_power(c.dev)],
                      !.wrote = stored,
                      !.over = Max(0, stored - RxBufLen),
                      !.up = Append(c.up,
                                IF res > 0 THEN ReceiveDone("sReceiveFrame", "None")
                                           ELSE ReceiveDone("NULL", "Abort"))]

(* ------------------------------ actions -------------------------------- *)

NoArgs == [ch |-> 0, ev |-> "", len |-> 0, val |-> 0, addr |-> <<>>]

\* the state after C function op has turned the context into c
Apply(op, args, c) ==
    /\ dev' = c.dev
    /\ sTransmitFrame' = c.tx
    /\ sReceiveFrame' = c.rx
    /\ panicked' = c.panic
    /\ prev' = [dev |-> dev, tx |-> sTransmitFrame, rx |-> sReceiveFrame]
    /\ last' = [op |-> op, ch |-> args.ch, ev |-> args.ev, len |-> args.len,
                val |-> args.val, addr |-> args.addr,
                ret |-> c.ret, up |-> c.up, sends |-> c.sends,
                wrote |-> c.wrote, over |-> c.over, out |-> c.out]
    /\ trace' = IF trace.left > 0
                THEN [left |-> trace.left - 1,
                      steps |-> Append(trace.steps,
                                  [op |-> op, ch |-> args.ch, ev |-> args.ev, ret |-> c.ret,
                                   up |-> c.up, state |-> otPlatRadioGetState(c.dev),
                                   channel |-> get_channel(c.dev),
                                   rxChannel |-> c.rx.mChannel])]
                ELSE trace
    /\ UNCHANGED NDEBUG
    /\ UNCHANGED alarmVars

Enable == ~panicked /\ Apply("Enable", NoArgs, otPlatRadioEnable(Ctx))

Disable == ~panicked /\ Apply("Disable", NoArgs, otPlatRadioDisable(Ctx))

Sleep == ~panicked /\ Apply("Sleep", NoArgs, otPlatRadioSleep(Ctx))

Receive ==
    /\ ~panicked
    /\ \E aChannel \in Channels :
         Apply("Receive", [NoArgs EXCEPT !.ch = aChannel], otPlatRadioReceive(Ctx, aChannel))

Transmit == ~panicked /\ Apply("Transmit", NoArgs, otPlatRadioTransmit(Ctx, NDEBUG))

\* the consumer fills the buffer it got from otPlatRadioGetTransmitBuffer
FillTransmitBuffer ==
    /\ ~panicked
    /\ \E f \in TxFrames :
         Apply("GetTransmitBuffer", NoArgs, [Ctx EXCEPT !.tx = f])

\* the device hears the start of a frame
FrameStart ==
    /\ ~panicked
    /\ dev.state = "IDLE"
    /\ Apply("FrameStart", NoArgs, [Ctx EXCEPT !.dev = set_state(dev, "RX")])

\* NETDEV2_EVENT_RX_COMPLETE: the device is back to listening, recv_pkt runs
RxComplete ==
    /\ ~panicked
    /\ dev.state = "RX"
    /\ \E len \in RecvLens, ok \in BOOLEAN :
         Apply("recv_pkt", [NoArgs EXCEPT !.len = len],
               recv_pkt([Ctx EXCEPT !.dev = dev_rx_end(dev)], len, ok))

\* a transmit event of the driver: sent_pkt runs; on the four completion
\* events the device has left TX
TxEvent ==
    /\ ~panicked
    /\ dev.state = "TX"
    /\ \E event \in TxEvents :
         Apply("sent_pkt", [NoArgs EXCEPT !.ev = event],
               sent_pkt([Ctx EXCEPT !.dev = IF event \in TxDoneEvents
                                            THEN dev_tx_end(dev) ELSE dev],
                        event))

\* the consumer sets the configuration, and reads the address
SetPanId ==
    /\ ~panicked
    /\ \E aPanId \in PanIds :
         Apply("SetPanId", [NoArgs EXCEPT !.val = aPanId], otPlatRadioSetPanId(Ctx, aPanId))

SetShortAddress ==
    /\ ~panicked
    /\ \E aShortAddress \in ShortAddresses :
         Apply("SetShortAddress", [NoArgs EXCEPT !.val = aShortAddress],
               otPlatRadioSetShortAddress(Ctx, aShortAddress))

SetExtendedAddress ==
    /\ ~panicked
    /\ \E aExtendedAddress \in ExtAddresses :
         Apply("SetExtendedAddress", [NoArgs EXCEPT !.addr = aExtendedAddress],
               otPlatRadioSetExtendedAddress(Ctx, aExtendedAddress))

SetDefaultTxPower ==
    /\ ~panicked
    /\ \E aPower \in Powers :
         Apply("SetDefaultTxPower", [NoArgs EXCEPT !.val = aPower],
               otPlatRadioSetDefaultTxPower(Ctx, aPower))

SetPromiscuous ==
    /\ ~panicked
    /\ \E aEnable \in BOOLEAN :
         Apply("SetPromiscuous", [NoArgs EXCEPT !.val = IF aEnable THEN 1 ELSE 0],
               otPlatRadioSetPromiscuous(Ctx, aEnable))

GetPromiscuous == ~panicked /\ Apply("GetPromiscuous", NoArgs, otPlatRadioGetPromiscuous(Ctx))

GetIeeeEui64 == ~panicked /\ Apply("GetIeeeEui64", NoArgs, otPlatRadioGetIeeeEui64(Ctx))


(* ======================== millisecond alarm ============================ *)

XTIMER_EVENT == "OPENTHREAD_XTIMER_MSG_TYPE_EVENT"

Delays == 0 .. MaxDelay

\* the delays the consumer asks for
DelaysAsked == Delays \cup {WrapDelay}

\* the clock at start-up: just started, or a millisecond before it wraps
ClockStarts == {Usec(0, 0), Usec(WrapMs - 1, WrapUs)}

\* a.timer, a.queue: the state the alarm functions work on;  a.sent: what
\* msg_send returned (-1: not called);  a.offset: the offset xtimer_set_msg
\* was called with;  a.fault: whether the caller of msg_send recorded or
\* reported that a message was lost
ACtx == [timer |-> ot_timer, queue |-> queue, sent |-> -1, offset |-> Usec(0, 0),
         fault |-> FALSE]

\* msg_send to the calling thread's own queue, and msg_send_int from the
\* timer interrupt: the message is queued when a slot is free and dropped
\* otherwise; neither blocks
msg_send(a, m) ==
    IF Len(a.queue) < OPENTHREAD_QUEUE_LEN
    THEN [a EXCEPT !.queue = Append(a.queue, m), !.sent = 1]
    ELSE [a EXCEPT !.sent = 0]

\* xtimer_set_msg: (re)arms the timer to send m once offset microseconds
\* have passed; a timer that was set is removed first
xtimer_set_msg(a, offset, m) ==
    [a EXCEPT !.timer = [armed |-> TRUE, left |-> offset, msg |-> m],
              !.offset = offset]

Disarmed == [armed |-> FALSE, left |-> Usec(0, 0), msg |-> [type |-> "", req |-> 0]]

xtimer_remove(a) == [a EXCEPT !.timer = Disarmed]

\* req numbers the call; it is carried in the message so that a notification
\* can be traced to the call that asked for it
otPlatAlarmMilliStartAt_AlwaysTimer(a, aT0, aDt, req) ==
    LET ot_alarm_msg == [type |-> XTIMER_EVENT, req |-> req]
    IN xtimer_set_msg(a, MsToUsecU32(aDt), ot_alarm_msg)

\* aT0 is not used, and neither is what msg_send returns
otPlatAlarmMilliStartAt(a, aT0, aDt, req) ==
    LET ot_alarm_msg == [type |-> XTIMER_EVENT, req |-> req]
    IN IF aDt = 0
       THEN msg_send(a, ot_alarm_msg)
       ELSE LET dt == MsToUsecU32(aDt)
            IN xtimer_set_msg(a, dt, ot_alarm_msg)

otPlatAlarmMilliStop_NoRemove(a) == a

otPlatAlarmMilliStop(a) == xtimer_remove(a)

\* xtimer_now_usec() / US_PER_MS: the whole milliseconds of the 32-bit count
otPlatAlarmMilliGetNow(now) == now.ms

(* ------------------------- alarm actions ------------------------------- *)

AlarmArgs == [aT0 |-> 0, aDt |-> 0, req |-> 0]

\* the state after an operation on the timer or the queue
AApply(op, args, a) ==
    /\ ot_timer' = a.timer
    /\ queue' = a.queue
    /\ alarm_prev' = [timer |-> ot_timer, queue |-> queue, now |-> now_usec]
    /\ alarm_last' = [op |-> op, aT0 |-> args.aT0, aDt |-> args.aDt, req |-> args.req,
                      sent |-> a.sent, offset |-> a.offset, fault |-> a.fault]

\* the consumer runs only inside the loop: in otTaskletsProcess and in
\* otPlatAlarmMilliFired
ConsumerRuns == pc \in {"otTaskletsProcess", "otPlatAlarmMilliFired"}

\* the reference times the consumer passes: the current time, or the
\* millisecond before it
ReferenceTimes ==
    {otPlatAlarmMilliGetNow(now_usec)}
    \cup (IF otPlatAlarmMilliGetNow(now_usec) > 0
          THEN {otPlatAlarmMilliGetNow(now_usec) - 1} ELSE {})

StartAt ==
    /\ ConsumerRuns
    /\ nreq < MaxRequests
    /\ \E aDt \in DelaysAsked, aT0 \in ReferenceTimes :
         AApply("StartAt", [aT0 |-> aT0, aDt |-> aDt, req |-> nreq + 1],
                otPlatAlarmMilliStartAt(ACtx, aT0, aDt, nreq + 1))
    /\ nreq' = nreq + 1
    /\ UNCHANGED <<now_usec, pc, msg, tasklets, ticks, radioVars>>

Stop ==
    /\ ConsumerRuns
    /\ AApply("Stop", [AlarmArgs EXCEPT !.req = nreq], otPlatAlarmMilliStop(ACtx))
    /\ UNCHANGED <<now_usec, pc, msg, tasklets, nreq, ticks, radioVars>>

\* the consumer posts itself a tasklet
PostTasklet ==
    /\ ConsumerRuns
    /\ tasklets < MaxTasklets
    /\ tasklets' = tasklets + 1
    /\ UNCHANGED <<now_usec, ot_timer, queue, pc, msg, nreq, ticks, alarm_prev,
                   alarm_last, radioVars>>

\* what is left of an offset a millisecond later
Elapse(left) == IF left.ms >= 1 THEN Usec(left.ms - 1, left.us) ELSE Usec(0, 0)

TimerDue == ot_timer.armed /\ ot_timer.left = Usec(0, 0)
TimerRuns == ot_timer.armed /\ ot_timer.left # Usec(0, 0)

\* the clock advances by a millisecond, not past the moment the timer is
\* due; a timer that runs always sees the clock advance
Tick ==
    /\ ticks < MaxTicks \/ TimerRuns
    /\ ~TimerDue
    /\ now_usec' = AddU32(now_usec, Usec(1, 0))
    /\ ticks' = IF ticks < MaxTicks THEN ticks + 1 ELSE ticks
    /\ AApply("Tick", AlarmArgs,
              [ACtx EXCEPT !.timer = IF ot_timer.armed
                                     THEN [ot_timer EXCEPT !.left = Elapse(ot_timer.left)]
                                     ELSE ot_timer])
    /\ UNCHANGED <<pc, msg, tasklets, nreq, radioVars>>

\* the timer is due: its interrupt sends the message to the timer thread
TimerFire ==
    /\ TimerDue
    /\ AApply("TimerFire", [AlarmArgs EXCEPT !.req = ot_timer.msg.req],
              xtimer_remove(msg_send(ACtx, ot_timer.msg)))
    /\ UNCHANGED <<now_usec, pc, msg, tasklets, nreq, ticks, radioVars>>

\* the kinds of driver event the spec puts in the same queue
DriverEvents == {"DriverRx", "DriverTxDone"}

\* the driver's interrupt posts an event to the timer thread, while no
\* more than MaxBacklog messages wait there
PostDriverEvent ==
    /\ Len(queue) <= MaxBacklog
    /\ \E type \in DriverEvents :
         AApply("PostDriverEvent", AlarmArgs, msg_send(ACtx, [type |-> type, req |-> 0]))
    /\ UNCHANGED <<now_usec, pc, msg, tasklets, nreq, ticks, radioVars>>

\* otTaskletsProcess returns: the tasklets that were pending have run
TaskletsProcessed ==
    /\ pc = "otTaskletsProcess"
    /\ \E left \in 0 .. tasklets :
         tasklets' = left
    /\ pc' = "otTaskletsArePending"
    /\ UNCHANGED <<now_usec, ot_timer, queue, msg, nreq, ticks, alarm_prev, alarm_last,
                   radioVars>>

TaskletsArePending_Ignored ==
    /\ pc = "otTaskletsArePending"
    /\ pc' = "msg_receive"
    /\ UNCHANGED <<now_usec, ot_timer, queue, msg, tasklets, nreq, ticks, alarm_prev,
                   alarm_last, radioVars>>

TaskletsArePending ==
    /\ pc = "otTaskletsArePending"
    /\ pc' = IF tasklets = 0 THEN "msg_receive" ELSE "otTaskletsProcess"
    /\ UNCHANGED <<now_usec, ot_timer, queue, msg, tasklets, nreq, ticks, alarm_prev,
                   alarm_last, radioVars>>

\* msg_receive returns the oldest message; with none queued the thread waits
MsgReceive ==
    /\ pc = "msg_receive"
    /\ queue # <<>>
    /\ msg' = Head(queue)
    /\ AApply("msg_receive", [AlarmArgs EXCEPT !.req = Head(queue).req],
              [ACtx EXCEPT !.queue = Tail(queue)])
    /\ pc' = "switch"
    /\ UNCHANGED <<now_usec, tasklets, nreq, ticks, radioVars>>

Dispatch_NoUpcall ==
    /\ pc = "switch"
    /\ pc' = "otTaskletsProcess"
    /\ UNCHANGED <<now_usec, ot_timer, queue, msg, tasklets, nreq, ticks, alarm_prev,
                   alarm_last, radioVars>>

\* switch (msg.type)
Dispatch ==
    /\ pc = "switch"
    /\ pc' = IF msg.type = XTIMER_EVENT THEN "otPlatAlarmMilliFired"
                                        ELSE "otTaskletsProcess"
    /\ UNCHANGED <<now_usec, ot_timer, queue, msg, tasklets, nreq, ticks, alarm_prev,
                   alarm_last, radioVars>>

\* otPlatAlarmMilliFired returns
AlarmFiredReturns ==
    /\ pc = "otPlatAlarmMilliFired"
    /\ pc' = "otTaskletsProcess"
    /\ UNCHANGED <<now_usec, ot_timer, queue, msg, tasklets, nreq, ticks, alarm_prev,
                   alarm_last, radioVars>>

EmptyFrame == [mLength |-> 0, mChannel |-> 0, mPower |-> 0, mPsdu |-> <<>>]

RadioStart ==
    /\ NDEBUG \in BOOLEAN
    /\ \E channel \in Channels, power \in Powers :
         dev = [state |-> "OFF", channel |-> channel, power |-> power] @@ DefaultConfig
    /\ sTransmitFrame = EmptyFrame
    /\ sReceiveFrame = EmptyFrame
    /\ panicked = FALSE
    /\ prev = [dev |-> dev, tx |-> EmptyFrame, rx |-> EmptyFrame]
    /\ last = [op |-> "init", ch |-> 0, ev |-> "", len |-> 0, val |-> 0, addr |-> <<>>,
               ret |-> "void", up |-> <<>>, sends |-> 0, wrote |-> 0, over |-> 0,
               out |-> <<>>]
    /\ trace \in [left : {0, MaxSteps}, steps : {<<>>}]

AlarmStart ==
    /\ now_usec \in ClockStarts
    /\ ot_timer = Disarmed
    /\ queue = <<>>
    /\ pc = "otTaskletsProcess"
    /\ msg = [type |-> "", req |-> 0]
    /\ tasklets = 0
    /\ nreq = 0
    /\ ticks = 0
    /\ alarm_prev = [timer |-> Disarmed, queue |-> <<>>, now |-> now_usec]
    /\ alarm_last = [op |-> "init", aT0 |-> 0, aDt |-> 0, req |-> 0, sent |-> -1,
                     offset |-> Usec(0, 0), fault |-> FALSE]

Init == RadioStart /\ AlarmStart

Next ==
    \/ Enable
    \/ Disable
    \/ Sleep
    \/ Receive
    \/ Transmit
    \/ FillTransmitBuffer
    \/ FrameStart
    \/ RxComplete
    \/ TxEvent

\* the radio, with the timer thread left alone
InitRadio == Init /\ now_usec = Usec(0, 0) /\ trace.left = 0

Spec == InitRadio /\ [][Next]_vars

NextAlarm ==
    \/ StartAt
    \/ Stop
    \/ PostTasklet
    \/ Tick
    \/ TimerFire
    \/ TaskletsProcessed
    \/ TaskletsArePending
    \/ MsgReceive
    \/ Dispatch
    \/ AlarmFiredReturns

\* the first MaxSteps operations of a run in which the consumer enables the
\* radio, listens and transmits, traced
Tracing == trace.left > 0

NextE2E ==
    \/ Tracing /\ Enable
    \/ Tracing /\ Receive
    \/ Tracing /\ Transmit
    \/ Tracing /\ FillTransmitBuffer
    \/ Tracing /\ TxEvent

InitE2E ==
    /\ Init
    /\ now_usec = Usec(0, 0)
    /\ trace.left = MaxSteps
    /\ NDEBUG /\ dev.channel = 11 /\ dev.power = 0

SpecE2E == InitE2E /\ [][NextE2E]_vars

\* the radio with the consumer setting its configuration
NextConfig ==
    \/ Enable
    \/ Receive
    \/ Transmit
    \/ TxEvent
    \/ SetPanId
    \/ SetShortAddress
    \/ SetExtendedAddress
    \/ SetDefaultTxPower
    \/ SetPromiscuous
    \/ GetPromiscuous
    \/ GetIeeeEui64

InitConfig == InitRadio /\ NDEBUG /\ dev.channel = 11 /\ dev.power = 0

SpecConfig == InitConfig /\ [][NextConfig]_vars

\* the timer thread with driver events posted to its queue as well
NextDispatch ==
    \/ StartAt
    \/ PostDriverEvent
    \/ PostTasklet
    \/ TaskletsProcessed
    \/ TaskletsArePending
    \/ MsgReceive
    \/ Dispatch
    \/ AlarmFiredReturns

\* the timer thread and the alarm, with the radio left alone
InitClock == Init /\ NDEBUG /\ dev.channel = 11 /\ dev.power = 0 /\ trace.left = 0

InitAlarm == InitClock /\ now_usec = Usec(0, 0)

SpecAlarm == InitAlarm /\ [][NextAlarm]_vars

\* the same, with the clock started anywhere in ClockStarts
SpecClock == InitClock /\ [][NextAlarm]_vars

\* the timer thread and the alarm under fair scheduling: the clock runs on
\* while a timer is set, the timer's interrupt is served, the loop thread is
\* scheduled, the consumer's upcall returns, and a drain of the tasklets
\* comes to an end with none pending
DrainEnds == TaskletsProcessed /\ tasklets' = 0

Fairness ==
    /\ WF_vars(Tick)
    /\ WF_vars(TimerFire)
    /\ WF_vars(TaskletsArePending)
    /\ WF_vars(MsgReceive)
    /\ WF_vars(Dispatch)
    /\ WF_vars(AlarmFiredReturns)
    /\ SF_vars(DrainEnds)

\* the notifications of OPENTHREAD_QUEUE_LEN zero-delay start_at calls
Backlog == [r \in 1 .. OPENTHREAD_QUEUE_LEN |-> [type |-> XTIMER_EVENT, req |-> r]]

\* the consumer has begun with OPENTHREAD_QUEUE_LEN zero-delay start_at
\* calls in its first otTaskletsProcess: the queue is full
InitBacklog ==
    /\ RadioStart
    /\ NDEBUG /\ dev.channel = 11 /\ dev.power = 0 /\ trace.left = 0
    /\ now_usec = Usec(0, 0)
    /\ ot_timer = Disarmed
    /\ queue = Backlog
    /\ pc = "otTaskletsProcess"
    /\ msg = [type |-> "", req |-> 0]
    /\ tasklets = 0
    /\ nreq = OPENTHREAD_QUEUE_LEN
    /\ ticks = 0
    /\ alarm_prev = [timer |-> Disarmed,
                     queue |-> SubSeq(Backlog, 1, OPENTHREAD_QUEUE_LEN - 1),
                     now |-> now_usec]
    /\ alarm_last = [op |-> "StartAt", aT0 |-> 0, aDt |-> 0, req |-> OPENTHREAD_QUEUE_LEN,
                     sent |-> 1, offset |-> Usec(0, 0), fault |-> FALSE]

SpecAlarmFair == InitBacklog /\ [][NextAlarm]_vars /\ Fairness

InitDispatch == InitAlarm

SpecDispatch == InitDispatch /\ [][NextDispatch]_vars

(* ============================ radio claims ============================= *)

PhyPrev == otPlatRadioGetState(prev.dev)
PhyNow == otPlatRadioGetState(dev)
BusyPrev == prev.dev.state \in {"TX", "RX"}

\* C1 as stated: Transmit issued while the radio state is Transmit returns
\* Busy, leaves the outbound frame and the device channel and power as they
\* were, and calls the driver's send no second time.
C1_TransmitInTransmitReturnsBusy ==
    (last.op = "Transmit" /\ PhyPrev = "Transmit") =>
        /\ last.ret = "Busy"
        /\ sTransmitFrame = prev.tx
        /\ dev.channel = prev.dev.channel
        /\ dev.power = prev.dev.power
        /\ last.sends = 0

\* C1 amended: Transmit issued while the radio state is Transmit is rejected:
\* built with assertions the program stops at assert(false) and the call
\* never returns, built without them (NDEBUG) the call returns Busy; either
\* way the outbound frame, the device channel and power are as they were and
\* the driver's send is not called.
C1_TransmitInTransmitRejected ==
    (last.op = "Transmit" /\ PhyPrev = "Transmit") =>
        /\ IF NDEBUG THEN last.ret = "Busy" /\ ~panicked
                     ELSE last.ret = "void" /\ panicked
        /\ sTransmitFrame = prev.tx
        /\ dev = prev.dev
        /\ last.sends = 0

C1_Witness ==
    /\ last.op = "Transmit"
    /\ PhyPrev = "Transmit"
    /\ last.ret = "Busy"
    /\ prev.tx.mChannel # prev.dev.channel

Commands == {"Enable", "Disable", "Sleep", "Receive", "Transmit"}

\* the rows of the transition table: <<state, command>>
TableRows ==
    {<<"Disabled", "Enable">>, <<"Sleep", "Receive">>, <<"Receive", "Sleep">>,
     <<"Receive", "Disable">>, <<"Receive", "Transmit">>, <<"Sleep", "Disable">>}
    \cup {<<s, "Sleep">> : s \in {"Disabled", "Sleep", "Receive", "Transmit"}}

\* C2: the radio state is always one of the four states; a command whose
\* (state, command) pair is no row of the transition table leaves the state
\* as it was; Receive issued in Disabled, and Transmit issued in Disabled or
\* Sleep, do not return success.
C2_OnlyTableTransitions ==
    /\ PhyNow \in {"Disabled", "Sleep", "Receive", "Transmit"}
    /\ (last.op \in Commands /\ <<PhyPrev, last.op>> \notin TableRows) =>
           PhyNow = PhyPrev
    /\ (last.op = "Receive" /\ PhyPrev = "Disabled") => last.ret # "None"
    /\ (last.op = "Transmit" /\ PhyPrev \in {"Disabled", "Sleep"}) => last.ret # "None"

\* C3: when sent_pkt handles one of the four transmit-completion events with
\* the radio in Transmit, the radio state afterwards is Receive and the
\* consumer got exactly one otPlatRadioTransmitDone, carrying the outbound
\* frame, which is as Transmit sent it.
C3_TransmitDoneBackToReceive ==
    (last.op = "sent_pkt" /\ last.ev \in TxDoneEvents /\ PhyPrev = "Transmit") =>
        /\ PhyNow = "Receive"
        /\ Len(last.up) = 1
        /\ last.up[1].fn = "otPlatRadioTransmitDone"
        /\ last.up[1].frame = "sTransmitFrame"
        /\ sTransmitFrame = prev.tx

C3_Witness ==
    /\ last.op = "sent_pkt"
    /\ last.ev = "TX_NOACK"
    /\ PhyPrev = "Transmit"
    /\ PhyNow = "Receive"
    /\ Len(last.up) = 1

\* C4: when the driver reports a frame longer than the receive buffer,
\* recv_pkt makes the upcall otPlatRadioReceiveDone(NULL, Abort) and writes
\* neither mLength or mPower of the inbound frame nor a byte of the buffer;
\* whatever length is reported, no byte is stored beyond the buffer.
C4_OversizeFrameAborted ==
    last.op = "recv_pkt" =>
        /\ last.len > RxBufLen =>
              /\ last.up = <<ReceiveDone("NULL", "Abort")>>
              /\ sReceiveFrame = prev.rx
              /\ last.wrote = 0
        /\ last.over = 0

C6_Disable ==
    last.op = "Disable" =>
        IF BusyPrev
        THEN last.ret = "Busy" /\ dev = prev.dev
        ELSE last.ret = "None" /\ PhyNow = "Disabled"

C6_Witness ==
    /\ last.op = "Disable"
    /\ prev.dev.state = "TX"
    /\ last.ret = "Busy"

\* C7: Enable always returns success; called in Sleep, Receive or Transmit it
\* leaves the radio state as it was, called in Disabled it moves to Sleep,
\* and a second Enable changes nothing the first has not changed.
C7_EnableNoOpWhenActive ==
    /\ last.op = "Enable" =>
          /\ last.ret = "None"
          /\ PhyPrev \in {"Sleep", "Receive", "Transmit"} => PhyNow = PhyPrev
          /\ PhyPrev = "Disabled" => PhyNow = "Sleep"
    /\ otPlatRadioEnable(otPlatRadioEnable(Ctx)).dev = otPlatRadioEnable(Ctx).dev

ZeroDelayStart == alarm_last.op = "StartAt" /\ alarm_last.aDt = 0
Notification(req) == [type |-> XTIMER_EVENT, req |-> req]
IsPrefix(p, q) == Len(p) <= Len(q) /\ SubSeq(q, 1, Len(p)) = p

C10_StartCancelsEarlierDelivery ==
    /\ (alarm_last.op = "StartAt" /\ alarm_prev.timer.armed /\ ot_timer.armed) =>
           ot_timer.msg.req = alarm_last.req
    /\ alarm_last.op = "TimerFire" => alarm_last.req = nreq
    /\ alarm_last.op = "StartAt" => IsPrefix(alarm_prev.queue, queue)

QueueGrows == Len(queue') > Len(queue)

\* C11: stop only clears the scheduled delivery.  When it returns the timer
\* is not armed and the event queue is as it was, so a notification already
\* queued stays to be delivered; called with nothing scheduled it changes
\* neither the timer nor the queue; and while the timer is not armed, only a
\* start_at puts a notification in the queue.
C11_StopOnlyClearsTimer ==
    /\ [](alarm_last.op = "Stop" =>
            /\ ~ot_timer.armed
            /\ queue = alarm_prev.queue
            /\ ~alarm_prev.timer.armed => ot_timer = alarm_prev.timer)
    /\ [][(~ot_timer.armed /\ QueueGrows) => alarm_last'.op = "StartAt"]_vars

C11_Witness ==
    /\ alarm_last.op = "Stop"
    /\ alarm_prev.timer.armed
    /\ queue # <<>>

TimedStart == alarm_last.op = "StartAt" /\ alarm_last.aDt > 0

\* C12: a start_at with delay > 0 schedules the notification for the instant
\* reference_time + delay milliseconds: when the call returns the timer is
\* armed for this call and the time left on it is reference_time + delay
\* less the current time, for every reference time and every 32-bit delay.
C12_ScheduledAtReferencePlusDelay ==
    TimedStart =>
        /\ ot_timer.armed
        /\ ot_timer.msg = Notification(alarm_last.req)
        /\ ot_timer.left.ms =
              alarm_last.aT0 + alarm_last.aDt - otPlatAlarmMilliGetNow(alarm_prev.now)

\* C13: the value returned by now() never goes backward: from one step to
\* the next it is greater than or equal to what it was, across the wrap of
\* the 32-bit microsecond clock too.
C13_NowNeverGoesBackward ==
    [][otPlatAlarmMilliGetNow(now_usec') >= otPlatAlarmMilliGetNow(now_usec)]_vars

ReverseBytes(a) == [i \in 1 .. Len(a) |-> a[Len(a) + 1 - i]]

\* C14: for every extended address A, otPlatRadioSetExtendedAddress hands
\* the device the bytes of A in reversed order, and reading the address back
\* through otPlatRadioGetIeeeEui64 (get_long_addr) from a device that echoes
\* the stored bytes gives A in its original order.
C14_ExtendedAddressRoundTrip ==
    last.op = "SetExtendedAddress" =>
        /\ get_long_addr(dev) = ReverseBytes(last.addr)
        /\ otPlatRadioGetIeeeEui64(Ctx).out = last.addr

Config(d) ==
    [channel |-> d.channel, power |-> d.power, nid |-> d.nid, addr |-> d.addr,
     long_addr |-> d.long_addr, promiscuous |-> d.promiscuous]

Setters ==
    {"SetPanId", "SetShortAddress", "SetExtendedAddress", "SetDefaultTxPower",
     "SetPromiscuous"}

\* C20: the configuration of the radio (channel, transmit power, PAN id,
\* short address, extended address, promiscuous flag) is not changed while
\* the radio state is Transmit: a configuration setter called between a
\* Transmit command and its completion event leaves it as it was.
C20_NoConfigChangeInTransmit ==
    (last.op \in Setters /\ otPlatRadioGetState(prev.dev) = "Transmit") =>
        Config(dev) = Config(prev.dev)

IsCommandOrEvent(e) == e.op # "GetTransmitBuffer"

\* the commands and driver events of the trace, the filling of the transmit
\* buffer left out
Traced == SelectSeq(trace.steps, IsCommandOrEvent)

Call(e) == [op |-> e.op, ch |-> e.ch, ev |-> e.ev]

Script(c) ==
    << [op |-> "Enable", ch |-> 0, ev |-> ""],
       [op |-> "Receive", ch |-> c, ev |-> ""],
       [op |-> "Transmit", ch |-> 0, ev |-> ""],
       [op |-> "sent_pkt", ch |-> 0, ev |-> "TX_COMPLETE"] >>

\* the run began with the first n steps of the script
Follows(n, c) ==
    /\ Len(Traced) >= n
    /\ \A i \in 1 .. n : Call(Traced[i]) = Script(c)[i]

Outcome(n, c) ==
    LET e == Traced[n]
    IN CASE n = 1 -> e.ret = "None" /\ e.state = "Sleep" /\ e.up = <<>>
         [] n = 2 -> /\ e.ret = "None" /\ e.state = "Receive" /\ e.up = <<>>
                     /\ e.channel = c /\ e.rxChannel = c
         [] n = 3 -> e.ret = "None" /\ e.state = "Transmit" /\ e.up = <<>>
         [] n = 4 -> /\ e.state = "Receive"
                     /\ e.up = <<TransmitDone("sTransmitFrame", FALSE, "None")>>

\* C15: from Disabled, for every channel c, the run Enable, Receive(c),
\* Transmit, TxComplete event has every command return success, passes
\* through Sleep, Receive (c recorded as the channel), Transmit and Receive
\* in this order, and makes exactly one upcall, OnTransmitDone(transmit
\* frame, pending = false, Success), at the completion event and none before.
C15_EnableReceiveTransmitComplete ==
    \A c \in Channels, n \in 1 .. 4 :
        Follows(n, c) =>
            /\ Outcome(n, c)
            /\ \A i \in 1 .. Len(trace.steps) :
                 ~IsCommandOrEvent(trace.steps[i]) => trace.steps[i].up = <<>>

C15_Witness ==
    /\ Follows(4, MaxChannel)
    /\ sTransmitFrame # EmptyFrame
    /\ otPlatRadioGetState(dev) = "Receive"

LoopMoves == pc' # pc

\* C16: the loop never waits on the event queue while tasklets are pending.
\* Whenever it stands in msg_receive no tasklet is pending; it enters
\* msg_receive only from otTaskletsArePending, with none pending; and after
\* a dispatched event (the switch, otPlatAlarmMilliFired) it goes through
\* otTaskletsProcess and otTaskletsArePending again before it waits.
C16_NoWaitWhileTaskletsPending ==
    /\ [](pc = "msg_receive" => tasklets = 0)
    /\ [][(LoopMoves /\ pc' = "msg_receive") =>
             (pc = "otTaskletsArePending" /\ tasklets = 0)]_vars
    /\ [][(LoopMoves /\ pc' = "otTaskletsArePending") => pc = "otTaskletsProcess"]_vars
    /\ [][(LoopMoves /\ pc = "switch") =>
             pc' \in {"otPlatAlarmMilliFired", "otTaskletsProcess"}]_vars
    /\ [][(LoopMoves /\ pc = "otPlatAlarmMilliFired") => pc' = "otTaskletsProcess"]_vars

C16_Witness ==
    /\ pc = "msg_receive"
    /\ queue = <<>>
    /\ msg.type = XTIMER_EVENT
    /\ alarm_last.op = "StartAt"

\* C17: every event the loop dequeues is dispatched by its tag: from the
\* switch the loop goes to otPlatAlarmMilliFired for an alarm notification,
\* to recv_pkt for a DriverRx event and to sent_pkt for a DriverTxDone
\* event; none of the three is dropped without its handler.
C17_DispatchedByTag ==
    [][(pc = "switch" /\ LoopMoves) =>
          pc' = CASE msg.type = XTIMER_EVENT -> "otPlatAlarmMilliFired"
                  [] msg.type = "DriverRx" -> "recv_pkt"
                  [] msg.type = "DriverTxDone" -> "sent_pkt"]_vars

\* a call that posts a notification: a zero-delay start_at, a timer expiry
Posts == alarm_last.op = "TimerFire" \/ ZeroDelayStart

\* C18: the event queue never holds more than OPENTHREAD_QUEUE_LEN entries;
\* a producer (timer expiry, zero-delay start_at) that posts to a full queue
\* does not block, and the notification it loses is recorded as a fault
\* rather than dropped silently.
C18_BoundedQueueDropIsFault ==
    /\ Len(queue) <= OPENTHREAD_QUEUE_LEN
    /\ (Posts /\ Len(alarm_prev.queue) = OPENTHREAD_QUEUE_LEN) =>
          /\ queue = alarm_prev.queue
          /\ alarm_last.fault

Requests == 1 .. MaxRequests

\* right after start_at call r
Started(r) == alarm_last.op = "StartAt" /\ alarm_last.req = r

\* a stop or another start_at came while the timer was still set for call r
Cancelled(r) ==
    /\ alarm_last.op \in {"Stop", "StartAt"}
    /\ alarm_prev.timer.armed
    /\ alarm_prev.timer.msg.req = r

\* the loop has dequeued an alarm notification and is about to dispatch it
AlarmDequeued == pc = "switch" /\ msg.type = XTIMER_EVENT

\* C19: under fair scheduling, every start_at call that no stop and no other
\* start_at follows before its delivery time is eventually followed by an
\* otPlatAlarmMilliFired upcall from the loop: after the call the loop
\* dequeues an alarm notification, and every alarm notification it dequeues
\* leads to the upcall.
C19_StartIsFollowedByUpcall ==
    /\ \A r \in Requests : Started(r) ~> (AlarmDequeued \/ Cancelled(r))
    /\ AlarmDequeued ~> (pc = "otPlatAlarmMilliFired")

C19_Witness ==
    /\ pc = "otPlatAlarmMilliFired"
    /\ alarm_last.op = "msg_receive"
    /\ msg.req = nreq
    /\ alarm_prev.queue = <<msg>>

====
